---- MODULE Spec2Model ----
(***************************************************************************)
(* A model of the spotihue backend (src/backend): the SingletonTaskLock of *)
(* spotihue/tasks.py, the run_spotihue synchronization loop, the Hue       *)
(* bridge operations it calls, and the start/stop handlers of main.py.     *)
(*                                                                         *)
(* Four specifications share the variables:                                *)
(*   SpecLock  invocations of tasks wrapped by run_singleton_task, racing   *)
(*             on the Redis lock records, with a clock for the TTL;        *)
(*   Spec      the API process (start/stop), the Celery worker running      *)
(*             run_spotihue tasks, the Redis store and the fixtures;        *)
(*   SpecLoop  one run_spotihue loop from its launch on, tick by tick;      *)
(*   SpecCalls single calls of change_lights_colors, _get_current_track,   *)
(*             retrieve_current_track_information, setup_hue, the artwork  *)
(*             extraction and the cluster-to-xy pipeline, over enumerated  *)
(*             arguments.                                                  *)
(*                                                                         *)
(* Python values that the code distinguishes by type (None, bytes, str)    *)
(* are modelled as tagged records, so that a comparison of bytes with str  *)
(* is unequal as it is in Python.                                          *)
(***************************************************************************)
EXTENDS Integers, Sequences, FiniteSets, TLC

VARIABLES
    \* ---- SingletonTaskLock (tasks.py:18-88) ----
    now,            \* clock, seconds
    lock,           \* Redis: lock_id -> record written by setex, or NoRecord
    inv,            \* per wrapper invocation: position and locals
    \* ---- run_spotihue, main.py handlers, worker, store, fixtures ----
    task_id_key,    \* Redis key REDIS_SPOTIHUE_TASK_ID
    track_key,      \* Redis hash REDIS_TRACK_INFORMATION_KEY
    tasks,          \* Celery run_spotihue tasks by id: state, position, locals
    api,            \* the API process: handler position and locals
    lights,         \* the bridge's fixtures by name
    last_push,      \* history: the artwork URL the latest colour push was derived from
    \* ---- single calls of the bridge, track and colour functions ----
    call            \* the call in progress or just ended: arguments, position, result

lockVars == <<now, lock, inv>>
loopVars == <<task_id_key, track_key, tasks, api, lights, last_push>>
callVars == <<call>>
vars == <<now, lock, inv, task_id_key, track_key, tasks, api, lights, last_push, call>>

(***************************************************************************)
(* Python values                                                           *)
(***************************************************************************)
None == [t |-> "NoneType", v |-> ""]
PyBytes(s) == [t |-> "bytes", v |-> s]
PyStr(s) == [t |-> "str", v |-> s]

\* x.decode('utf-8') of a bytes value
decode(x) == PyStr(x.v)

\* Python truthiness of None, bytes and str values
truthy(x) == x.t # "NoneType" /\ x.v # ""

(***************************************************************************)
(* Bounds                                                                  *)
(***************************************************************************)
NumInvocations == 2
MaxTasks == 2
MaxNow == 600
ClockStep == 150

(***************************************************************************)
(* SingletonTaskLock and the run_singleton_task wrapper (tasks.py:18-88)   *)
(***************************************************************************)
\* LOCK_MAX_DURATION_SECONDS = 60 * 5 (tasks.py:61)
LOCK_MAX_DURATION_SECONDS == 60 * 5

\* lock_id (key) = task name; the two tasks decorated with run_singleton_task
TaskNames == {"setup_hue", "listen_for_spotify_redirect"}

\* lock values = task ids (myself.request.id); a redelivered message runs
\* a second invocation under the same id
RequestIds == {"id1", "id2"}

Invocations == 1..NumInvocations

NoRecord == [value |-> None, expiry |-> 0, writer |-> 0]

\* got_at is the time of the redis.get, kept while the decision it led to
\* has not been acted on.
IdleInvocation ==
    [pc |-> "idle", name |-> "", task_id |-> "", acquired |-> FALSE, outcome |-> "",
     got_at |-> 0]

\* A record written by setex exists until it is deleted or its TTL has run out.
LiveRecord(lock_id) == lock[lock_id] # NoRecord /\ lock[lock_id].expiry > now

\* A GET that returns a record whose TTL has run out
redis_get_ignoring_ttl(lock_id) == lock[lock_id].value

\* redis.get(lock_id): the stored bytes, or None
redis_get(lock_id) == IF LiveRecord(lock_id) THEN lock[lock_id].value ELSE None

\* redis.setex(lock_id, ttl, value) by invocation i
redis_setex(lock_id, ttl, value, i) ==
    [lock EXCEPT ![lock_id] =
        [value |-> PyBytes(value), expiry |-> now + ttl, writer |-> i]]

\* redis.delete(lock_id)
redis_delete(lock_id) == [lock EXCEPT ![lock_id] = NoRecord]

\* lock_acquired without the reentrant-by-token case
lock_acquired_absent_only(l, task_id) ==
    l = None

\* tasks.py:80
lock_acquired(l, task_id) ==
    l = None \/ (l.t = "bytes" /\ decode(l) = PyStr(task_id))

\* A worker starts the wrapper of a singleton task (tasks.py:39-44).
Invoke(i) ==
    /\ inv[i].pc = "idle"
    /\ \E n \in TaskNames, id \in RequestIds :
        inv' = [inv EXCEPT ![i] =
            [IdleInvocation EXCEPT !.pc = "get", !.name = n, !.task_id = id]]
    /\ UNCHANGED <<now, lock>>
    /\ UNCHANGED <<loopVars, callVars>>

\* acquire_for, tasks.py:79-80: read the record and decide.
AcquireGet(i) ==
    /\ inv[i].pc = "get"
    /\ inv' = [inv EXCEPT ![i].pc = "try",
                          ![i].acquired = lock_acquired(redis_get(inv[i].name), inv[i].task_id),
                          ![i].got_at = now]
    /\ UNCHANGED <<now, lock>>
    /\ UNCHANGED <<loopVars, callVars>>

\* acquire_for, tasks.py:82-85: write the record if acquired, then yield.
AcquireTry(i) ==
    /\ inv[i].pc = "try"
    /\ lock' = IF inv[i].acquired
               THEN redis_setex(inv[i].name, LOCK_MAX_DURATION_SECONDS, inv[i].task_id, i)
               ELSE lock
    /\ inv' = [inv EXCEPT ![i].pc = "yield", ![i].got_at = 0]
    /\ UNCHANGED now
    /\ UNCHANGED <<loopVars, callVars>>

\* The with-block of the wrapper, tasks.py:46-51: the task body runs only when
\* acquired, and either returns or raises.
Body(i) ==
    /\ inv[i].pc = "yield"
    /\ \E o \in (IF inv[i].acquired THEN {"returned", "raised"} ELSE {"skipped"}) :
        inv' = [inv EXCEPT ![i].pc = "finally", ![i].outcome = o]
    /\ UNCHANGED <<now, lock>>
    /\ UNCHANGED <<loopVars, callVars>>

\* A release that is skipped when the body raised (no try/finally)
ReleaseUnlessRaised(i) ==
    /\ inv[i].pc = "finally"
    /\ lock' = IF inv[i].acquired /\ inv[i].outcome # "raised"
               THEN redis_delete(inv[i].name) ELSE lock
    /\ inv' = [inv EXCEPT ![i].pc = "exited"]
    /\ UNCHANGED now
    /\ UNCHANGED <<loopVars, callVars>>

\* acquire_for, tasks.py:86-88: the finally clause.
Release(i) ==
    /\ inv[i].pc = "finally"
    /\ lock' = IF inv[i].acquired THEN redis_delete(inv[i].name) ELSE lock
    /\ inv' = [inv EXCEPT ![i].pc = "exited"]
    /\ UNCHANGED now
    /\ UNCHANGED <<loopVars, callVars>>

\* The wrapper returns (or the exception leaves it); the worker slot is free.
Return(i) ==
    /\ inv[i].pc = "exited"
    /\ inv' = [inv EXCEPT ![i] = IdleInvocation]
    /\ UNCHANGED <<now, lock>>
    /\ UNCHANGED <<loopVars, callVars>>

\* Time passes.
Tick ==
    /\ now + ClockStep <= MaxNow
    /\ now' = now + ClockStep
    /\ UNCHANGED <<lock, inv>>
    /\ UNCHANGED <<loopVars, callVars>>

\* No single call is in progress.
NoCall == [op |-> "", pc |-> "idle"]

InitLock ==
    /\ now = 0
    /\ lock = [n \in TaskNames |-> NoRecord]
    /\ inv = [i \in Invocations |-> IdleInvocation]
    /\ call = NoCall

NextLock ==
    \/ \E i \in Invocations : Invoke(i)
    \/ \E i \in Invocations : AcquireGet(i)
    \/ \E i \in Invocations : AcquireTry(i)
    \/ \E i \in Invocations : Body(i)
    \/ \E i \in Invocations : Release(i)
    \/ \E i \in Invocations : Return(i)
    \/ Tick

(***************************************************************************)
(* Hue bridge (hue.py)                                                     *)
(***************************************************************************)
\* The bridge's fixtures: L1 is a colour light, L2 a white (non-colour) one.
LightNames == {"L1", "L2"}

\* hue.py:130, 133, 134
NEUTRAL_BRIGHTNESS == 254
NEUTRAL_HUE == 10000
NEUTRAL_SATURATION == 120

\* What a fixture showed before the loop touched it.
PRIOR_BRIGHTNESS == 100
PRIOR_HUE == 0
PRIOR_SATURATION == 0

Range(seq) == {seq[i] : i \in DOMAIN seq}

\* A fixture as the bridge last left it, on or off.
PriorLight(is_white, is_on) ==
    [white_light |-> is_white, on |-> is_on, brightness |-> PRIOR_BRIGHTNESS,
     hue |-> PRIOR_HUE, saturation |-> PRIOR_SATURATION, xy |-> <<"prior", 0>>]

\* hue.py:126-134, the body of the for loop for one fixture
white_one(l) ==
    IF ~l.on
    THEN [l EXCEPT !.on = TRUE,
                   !.brightness = NEUTRAL_BRIGHTNESS,
                   !.hue = IF l.white_light THEN @ ELSE NEUTRAL_HUE,
                   !.saturation = IF l.white_light THEN @ ELSE NEUTRAL_SATURATION]
    ELSE l

\* HueBridge.change_all_lights_to_white (hue.py:115-134); the loop body is
\* idempotent, so a name listed twice is as a name listed once.
change_all_lights_to_white(ls, names) ==
    [n \in DOMAIN ls |-> IF n \in Range(names) THEN white_one(ls[n]) ELSE ls[n]]

\* A colour that stays at the last entry once the fixtures outnumber the
\* colours
color_one_clamped(ls, names, color_values, i) ==
    LET num_colors == Len(color_values)
        color == color_values[(IF i < num_colors THEN i ELSE num_colors - 1) + 1]
        light == names[i + 1]
    IN IF ~ls[light].white_light
       THEN [ls EXCEPT ![light].xy = color]
       ELSE ls

\* hue.py:152-157, the body of the for loop for index i (0-based, as
\* enumerate counts); sequences are 1-based here, so index i is entry i + 1.
color_one(ls, names, color_values, i) ==
    LET num_colors == Len(color_values)
        color == color_values[(i % num_colors) + 1]
        light == names[i + 1]
    IN IF ~ls[light].white_light
       THEN [ls EXCEPT ![light].xy = color]
       ELSE ls

\* hue.py:152: i % num_colors raises ZeroDivisionError when color_values is
\* empty.
color_one_raises(color_values) ==
    IF Len(color_values) = 0 THEN "ZeroDivisionError" ELSE ""

\* HueBridge.change_lights_colors (hue.py:136-157) as one step: the loop
\* over the positions of the list, for a non-empty color_values.
change_lights_colors(ls, names, color_values) ==
    LET after[i \in 0..Len(names)] ==
            IF i = 0 THEN ls ELSE color_one(after[i - 1], names, color_values, i - 1)
    IN after[Len(names)]

(***************************************************************************)
(* Track source (spotihue.py:152-228, 367-393)                             *)
(***************************************************************************)
\* Track items as the Spotify API returns them.  TrackC has a single image,
\* so it has no second image to take the artwork URL from.
Artists(a) == << [name |-> a] >>
Images(urls) == [i \in DOMAIN urls |-> [url |-> urls[i]]]
TrackA ==
    [name |-> "songA",
     album |-> [name |-> "albumA", artists |-> Artists("artistA"),
                images |-> Images(<<"a640", "a300", "a64">>)]]
TrackB ==
    [name |-> "songB",
     album |-> [name |-> "albumB", artists |-> Artists("artistB"),
                images |-> Images(<<"b640", "b300", "b64">>)]]
TrackC ==
    [name |-> "songC",
     album |-> [name |-> "albumC", artists |-> Artists("artistC"),
                images |-> Images(<<"c640">>)]]
Tracks == {TrackA, TrackB, TrackC}

\* What spotify.currently_playing() can do: raise SpotifyException, return
\* None (nothing playing), or return a playback with an item.
\* The exceptions currently_playing() raises: spotipy's own for an HTTP
\* error status, and what the requests library raises when the connection
\* fails.
UpstreamErrors == {"SpotifyException", "ConnectionError"}

Responses ==
    {[kind |-> "error", exc |-> e] : e \in UpstreamErrors}
    \cup {[kind |-> "none"]}
    \cup {[kind |-> "playback", item |-> tr, is_playing |-> b] :
             tr \in Tracks, b \in BOOLEAN}

\* spotihue.py:58-61
default_track_name == "unavailable"
default_track_artist == "unavailable"
default_track_album == "unavailable"
default_track_album_artwork_url == ""

\* dict.get(key, default)
get(d, key, default) == IF key \in DOMAIN d THEN d[key] ELSE default

\* The empty dict
EmptyDict == [k \in {} |-> ""]

IsNone(x) == "t" \in DOMAIN x /\ x.t = "NoneType"

\* SpotiHue._get_current_track (spotihue.py:152-163): the response, or None
\* when nothing is playing or the query raised; the return in the finally
\* clause swallows the error.
get_current_track(resp) ==
    IF resp.kind = "playback" THEN resp ELSE None

\* spotihue.py:159: the exception self._spotify.currently_playing() raises,
\* "" when it returns
currently_playing_raises(resp) ==
    IF resp.kind = "error" THEN resp.exc ELSE ""

\* spotihue.py:160-161: the except clause handles SpotifyException only
except_clause(raised) ==
    IF raised = "SpotifyException" THEN "" ELSE raised

\* A finally clause that does not return: the exception in flight goes on
finally_without_return(pending) == pending

\* spotihue.py:162-163: a return in a finally clause discards the exception
\* in flight
finally_return(pending) == ""

\* The exception that leaves _get_current_track, "" when it returns
get_current_track_raises(resp) ==
    finally_return(except_clause(currently_playing_raises(resp)))

\* spotihue.py:165-175
extract_track_name(track_data) == get(track_data, "name", default_track_name)

\* spotihue.py:177-194
extract_artist_name(track_data) ==
    LET artists_data == get(track_data.album, "artists", <<>>)
    IN IF Len(artists_data) > 0
       THEN get(artists_data[1], "name", default_track_artist)
       ELSE default_track_artist

\* spotihue.py:196-207
extract_album_name(track_data) == get(track_data.album, "name", default_track_album)

\* spotihue.py:209-228: the second image's URL, images_data[1] in Python
extract_album_artwork_url(track_data) ==
    LET images_data == get(track_data.album, "images", <<>>)
    IN IF Len(images_data) > 1
       THEN get(images_data[2], "url", default_track_album_artwork_url)
       ELSE default_track_album_artwork_url

\* spotihue.py:374-379
defaults ==
    [track_name |-> default_track_name,
     track_artist |-> default_track_artist,
     track_album |-> default_track_album,
     track_album_artwork_url |-> default_track_album_artwork_url]

\* A retrieval that takes a paused playback for no track and answers the
\* empty dict
retrieve_current_track_information_if_playing(resp) ==
    IF resp.kind = "playback" /\ resp.is_playing
    THEN [track_name |-> extract_track_name(resp.item),
          track_artist |-> extract_album_name(resp.item),
          track_album |-> extract_artist_name(resp.item),
          track_album_artwork_url |-> extract_album_artwork_url(resp.item)]
    ELSE EmptyDict

\* SpotiHue.retrieve_current_track_information (spotihue.py:367-393).  A
\* None from _get_current_track is replaced by the defaults, which have no
\* "item", and the defaults are returned; the keys track_artist and
\* track_album are filled as the code fills them.  run_spotihue calls it
\* with supply_defaults=False (tasks.py:128), a keyword this definition, the
\* only one in the sources, does not declare: the definition is modelled as
\* it stands, whatever the caller passes.
retrieve_current_track_information(resp) ==
    LET got == get_current_track(resp)
        current_track == IF IsNone(got) THEN defaults ELSE got
        track_data == get(current_track, "item", EmptyDict)
    IN IF DOMAIN track_data = {}
       THEN defaults
       ELSE [track_name |-> extract_track_name(track_data),
             track_artist |-> extract_album_name(track_data),
             track_album |-> extract_artist_name(track_data),
             track_album_artwork_url |-> extract_album_artwork_url(track_data)]

(***************************************************************************)
(* sync_lights_music (spotihue.py:395-444, 523-550)                        *)
(***************************************************************************)
\* What requests.get and cv2.imdecode can make of an artwork URL.
FetchResults == {"http_error", "not_an_image", "image"}

\* The k = 3 cluster colours derived from the artwork at url, in cluster order
ColorsOf(url) == << <<url, 1>>, <<url, 2>>, <<url, 3>> >>

\* SpotiHue.sync_lights_music up to the colour push: the exception it
\* raises, or "ok".  spotihue.py:530-536 (URL check), 538-539 (lights
\* check), 414-415 (raise_for_status), 419 and 432-433 (imdecode returns
\* None, which is no ndarray).  The push itself is the call of
\* spotihue.py:550, written hue_bridge.change_light_colors there; HueBridge's
\* colour-setting method is change_lights_colors (hue.py:136-157), which is
\* taken as the callee.
sync_lights_music_result(url, names, fetched) ==
    IF url = "" \/ url = default_track_album_artwork_url THEN "ValueError"
    ELSE IF names = <<>> THEN "ValueError"
    ELSE IF fetched = "http_error" THEN "RequestException"
    ELSE IF fetched = "not_an_image" THEN "ValueError"
    ELSE "ok"

\* Whether sync_lights_music got as far as fetching the artwork
fetch_attempted(url, names) ==
    ~(url = "" \/ url = default_track_album_artwork_url) /\ names # <<>>

(***************************************************************************)
(* run_spotihue (tasks.py:119-160) on the Celery worker                    *)
(***************************************************************************)
\* main.py:129
CURRENT_TRACK_RETRIES == 10

TaskNumbers == 1..MaxTasks

\* str(task.id)
TaskId(n) == ToString(n)
TaskOf(id) == CHOOSE n \in TaskNumbers : TaskId(n) = id

\* synced tells whether this run has pushed colours to the fixtures.
NoTask ==
    [state |-> "none", pc |-> "", lights |-> <<>>, revoke |-> FALSE,
     retries_spent |-> 0, track_info |-> defaults, last |-> None,
     heard |-> "", saw_track |-> FALSE, tick |-> "", fetched |-> "",
     synced |-> FALSE]

\* The comparison of tasks.py:155 with every tick taken as a change
artwork_changed_always(last, url) == TRUE

\* tasks.py:155: last is None, bytes or str; url is a str
artwork_changed(last, url) == last # PyStr(url)

\* The worker receives the task message and starts the task, unless the
\* task was revoked meanwhile.
RunTask(t) ==
    /\ tasks[t].state = "sent"
    /\ tasks' = [tasks EXCEPT ![t] =
                    IF @.revoke
                    THEN [NoTask EXCEPT !.state = "revoked", !.revoke = TRUE]
                    ELSE [@ EXCEPT !.state = "running", !.pc = "neutral"]]
    /\ UNCHANGED <<task_id_key, track_key, api, lights, last_push>>
    /\ UNCHANGED <<lockVars, callVars>>

\* revoke(terminate=True) reaches the worker: the task's process is killed.
Terminate(t) ==
    /\ tasks[t].state = "running"
    /\ tasks[t].revoke
    /\ tasks' = [tasks EXCEPT ![t] = [NoTask EXCEPT !.state = "revoked", !.revoke = TRUE]]
    /\ UNCHANGED <<task_id_key, track_key, api, lights, last_push>>
    /\ UNCHANGED <<lockVars, callVars>>

\* tasks.py:121-125
LoopNeutral(t) ==
    /\ tasks[t].state = "running" /\ tasks[t].pc = "neutral"
    /\ lights' = change_all_lights_to_white(lights, tasks[t].lights)
    /\ tasks' = [tasks EXCEPT ![t].pc = "poll", ![t].retries_spent = 0]
    /\ UNCHANGED <<task_id_key, track_key, api, last_push>>
    /\ UNCHANGED <<lockVars, callVars>>

\* tasks.py:128-148: the poll and, when it gave a track_info, the read of
\* the stored artwork URL (hgetall gives bytes; a truthy value is decoded).
\* A dict is falsy when it is empty.  The task ends with success at the
\* break; its link callback is clear_spotihue_task_id.
LoopPoll(t) ==
    /\ tasks[t].state = "running" /\ tasks[t].pc = "poll"
    /\ \E resp \in Responses :
        LET track_info == retrieve_current_track_information(resp)
            heard == IF resp.kind # "playback" THEN "nothing"
                     ELSE IF resp.is_playing THEN "track" ELSE "paused"
            last_track_info == track_key
            found == IF "track_album_artwork_url" \in DOMAIN last_track_info
                     THEN PyBytes(last_track_info.track_album_artwork_url)
                     ELSE None
            last == IF truthy(found) THEN decode(found) ELSE found
        IN tasks' = [tasks EXCEPT ![t] =
            IF DOMAIN track_info = {}
            THEN IF @.retries_spent < CURRENT_TRACK_RETRIES
                 THEN [@ EXCEPT !.retries_spent = @ + 1, !.heard = heard,
                                !.tick = "", !.fetched = ""]
                 ELSE [NoTask EXCEPT !.state = "succeeded", !.revoke = tasks[t].revoke,
                                     !.heard = heard, !.saw_track = tasks[t].saw_track,
                                     !.retries_spent = tasks[t].retries_spent]
            ELSE [@ EXCEPT !.pc = "hset", !.track_info = track_info,
                           !.last = last, !.heard = heard,
                           !.saw_track = @ \/ heard # "nothing",
                           !.tick = "", !.fetched = ""]]
    /\ UNCHANGED <<task_id_key, track_key, api, lights, last_push>>
    /\ UNCHANGED <<lockVars, callVars>>

\* tasks.py:150-153
LoopHset(t) ==
    /\ tasks[t].state = "running" /\ tasks[t].pc = "hset"
    /\ track_key' = tasks[t].track_info
    /\ tasks' = [tasks EXCEPT ![t].pc = "compare"]
    /\ UNCHANGED <<task_id_key, api, lights, last_push>>
    /\ UNCHANGED <<lockVars, callVars>>

\* tasks.py:155-160: the comparison, the sync and the sleep that ends the
\* tick.  An exception of sync_lights_music leaves run_spotihue:
\* the task fails, and Celery calls the link_error errback
\* clear_spotihue_task_id (main.py:126-131) as it records the failure.
LoopSync(t) ==
    /\ tasks[t].state = "running" /\ tasks[t].pc = "compare"
    /\ \E f \in FetchResults :
        LET url == tasks[t].track_info.track_album_artwork_url
            result == sync_lights_music_result(url, tasks[t].lights, f)
            fetched == IF fetch_attempted(url, tasks[t].lights) THEN f ELSE ""
        IN IF ~artwork_changed(tasks[t].last, url)
           THEN /\ tasks' = [tasks EXCEPT ![t].pc = "poll", ![t].tick = "skip"]
                /\ UNCHANGED <<task_id_key, lights, last_push>>
           ELSE IF result = "ok"
           THEN /\ lights' = change_lights_colors(lights, tasks[t].lights, ColorsOf(url))
                /\ last_push' = PyStr(url)
                /\ tasks' = [tasks EXCEPT ![t].pc = "poll", ![t].tick = "pushed",
                                          ![t].fetched = fetched, ![t].synced = TRUE]
                /\ UNCHANGED task_id_key
           ELSE /\ tasks' = [tasks EXCEPT ![t] =
                                [NoTask EXCEPT !.state = "failed", !.revoke = tasks[t].revoke,
                                               !.heard = tasks[t].heard,
                                               !.saw_track = tasks[t].saw_track,
                                               !.retries_spent = tasks[t].retries_spent,
                                               !.tick = "raised", !.fetched = fetched]]
                /\ task_id_key' = None
                /\ UNCHANGED <<lights, last_push>>
    /\ UNCHANGED <<track_key, api>>
    /\ UNCHANGED <<lockVars, callVars>>

(***************************************************************************)
(* main.py: PUT /start-spotihue and PUT /stop-spotihue.  The handlers are  *)
(* coroutines without an await, so one API process runs one at a time;     *)
(* the worker runs between their calls to Redis and Celery.                *)
(***************************************************************************)
\* The "lights" lists a client sends; "X" names no light of the bridge.
Requests == {<<>>, <<"L1", "L2">>, <<"X">>}

\* response is what the last handler answered: the message of its
\* StandardResponse, or the status code of its HTTPException.
ApiIdle == [pc |-> "idle", lights |-> <<>>, task |-> 0, response |-> ""]

\* The handler has answered.
Responded(r) == [ApiIdle EXCEPT !.response = r]

\* SpotiHue.retrieve_available_lights (spotihue.py:500-510): every fixture
\* of the model is reachable.
available_lights == LightNames

\* main.py:118
filter_lights(req) ==
    LET keep(n) == n \in available_lights
        F[i \in 0..Len(req)] ==
            IF i = 0 THEN <<>>
            ELSE IF keep(req[i]) THEN Append(F[i - 1], req[i]) ELSE F[i - 1]
    IN F[Len(req)]

\* is_spotihue_running (tasks.py:91-110): query_task knows the tasks the
\* worker has received and not finished.
is_spotihue_running ==
    /\ truthy(task_id_key)
    /\ tasks[TaskOf(decode(task_id_key).v)].state = "running"

\* The next unused task id, while one is left
NextTask == CHOOSE n \in TaskNumbers :
                tasks[n].state = "none" /\ \A m \in TaskNumbers : m < n => tasks[m].state # "none"

\* main.py:112-123: the request without lights is answered 400.
StartSpotihue(req) ==
    /\ api.pc = "idle"
    /\ \E n \in TaskNumbers : tasks[n].state = "none"
    /\ api' = IF req = <<>> THEN Responded("400")
              ELSE IF is_spotihue_running THEN [ApiIdle EXCEPT !.pc = "start_already"]
              ELSE [ApiIdle EXCEPT !.pc = "start_launch", !.lights = filter_lights(req)]
    /\ UNCHANGED <<task_id_key, track_key, tasks, lights, last_push>>
    /\ UNCHANGED <<lockVars, callVars>>

\* main.py:123-124, 135: the loop is running; the handler logs 'Spotihue is
\* already running' and returns the response of line 135.
StartAlready ==
    /\ api.pc = "start_already"
    /\ api' = Responded("spotihue started")
    /\ UNCHANGED <<task_id_key, track_key, tasks, lights, last_push>>
    /\ UNCHANGED <<lockVars, callVars>>

\* main.py:126-132: apply_async sends the task message.
StartLaunch ==
    /\ api.pc = "start_launch"
    /\ tasks' = [tasks EXCEPT ![NextTask] =
                    [NoTask EXCEPT !.state = "sent", !.lights = api.lights]]
    /\ api' = [api EXCEPT !.pc = "start_set_id", !.task = NextTask]
    /\ UNCHANGED <<task_id_key, track_key, lights, last_push>>
    /\ UNCHANGED <<lockVars, callVars>>

\* main.py:133-135
StartSetId ==
    /\ api.pc = "start_set_id"
    /\ task_id_key' = PyBytes(TaskId(api.task))
    /\ api' = Responded("spotihue started")
    /\ UNCHANGED <<track_key, tasks, lights, last_push>>
    /\ UNCHANGED <<lockVars, callVars>>

\* main.py:166-171, 178-179
StopSpotihue ==
    /\ api.pc = "idle"
    /\ api' = IF is_spotihue_running
              THEN [ApiIdle EXCEPT !.pc = "stop_revoke"]
              ELSE Responded("spotihue is not running")
    /\ UNCHANGED <<task_id_key, track_key, tasks, lights, last_push>>
    /\ UNCHANGED <<lockVars, callVars>>

\* main.py:172-174, 187-189: None has no decode, which ends the request
\* with 500;
\* revoke sends the worker a message and does not wait for it.
StopRevoke ==
    /\ api.pc = "stop_revoke"
    /\ IF truthy(task_id_key)
       THEN /\ tasks' = [tasks EXCEPT ![TaskOf(decode(task_id_key).v)].revoke = TRUE]
            /\ api' = [api EXCEPT !.pc = "stop_clear"]
       ELSE /\ api' = Responded("500")
            /\ UNCHANGED tasks
    /\ UNCHANGED <<task_id_key, track_key, lights, last_push>>
    /\ UNCHANGED <<lockVars, callVars>>

\* main.py:175-177: clear_spotihue_task_id called as a function (tasks.py:113-116)
StopClear ==
    /\ api.pc = "stop_clear"
    /\ task_id_key' = None
    /\ api' = Responded("spotihue stopped")
    /\ UNCHANGED <<track_key, tasks, lights, last_push>>
    /\ UNCHANGED <<lockVars, callVars>>

InitLoop ==
    /\ task_id_key = None
    /\ track_key = EmptyDict
    /\ tasks = [n \in TaskNumbers |-> NoTask]
    /\ api = ApiIdle
    /\ lights = [n \in LightNames |-> PriorLight(n = "L2", FALSE)]
    /\ last_push = None

Init == InitLock /\ InitLoop

NextLoop ==
    \/ \E req \in Requests : StartSpotihue(req)
    \/ StartAlready
    \/ StartLaunch
    \/ StartSetId
    \/ StopSpotihue
    \/ StopRevoke
    \/ StopClear
    \/ \E t \in TaskNumbers : RunTask(t)
    \/ \E t \in TaskNumbers : Terminate(t)
    \/ \E t \in TaskNumbers : LoopNeutral(t)
    \/ \E t \in TaskNumbers : LoopPoll(t)
    \/ \E t \in TaskNumbers : LoopHset(t)
    \/ \E t \in TaskNumbers : LoopSync(t)

Next == NextLoop

\* The state in which start_spotihue has returned after launching the first
\* loop with the fixtures a client asked for (main.py:118, 127-135).
InitStarted ==
    /\ task_id_key = PyBytes(TaskId(1))
    /\ track_key = EmptyDict
    /\ \E req \in Requests \ {<<>>} :
        tasks = [n \in TaskNumbers |->
                    IF n = 1
                    THEN [NoTask EXCEPT !.state = "sent", !.lights = filter_lights(req)]
                    ELSE NoTask]
    /\ api = ApiIdle
    /\ \E on1, on2 \in BOOLEAN :
        lights = [n \in LightNames |->
                    IF n = "L1" THEN PriorLight(FALSE, on1) ELSE PriorLight(TRUE, on2)]
    /\ last_push = None

\* The worker running the loops that were launched
NextRun ==
    \/ \E t \in TaskNumbers : RunTask(t)
    \/ \E t \in TaskNumbers : LoopNeutral(t)
    \/ \E t \in TaskNumbers : LoopPoll(t)
    \/ \E t \in TaskNumbers : LoopHset(t)
    \/ \E t \in TaskNumbers : LoopSync(t)

(***************************************************************************)
(* Single calls of HueBridge.change_lights_colors, one loop iteration a    *)
(* step, on a bridge with three fixtures                                   *)
(***************************************************************************)
MaxLights == 3
MaxColors == 2

\* The fixtures of the bridge the calls are made on; L2 is a white light.
CallLightNames == {"L1", "L2", "L3"}

\* The xy values a caller passes
Palette == {<<"palette", k>> : k \in 1..MaxColors}

SeqsUpTo(S, n) == UNION {[1..k -> S] : k \in 0..n}

\* hue.py:148-149: the call with its arguments, before the first iteration
SetColorsCall(names, color_values) ==
    /\ call = NoCall
    /\ call' = [op |-> "change_lights_colors", pc |-> "loop", names |-> names,
                color_values |-> color_values, i |-> 0, raised |-> ""]
    /\ UNCHANGED <<lockVars, loopVars>>

\* hue.py:151-157: one iteration of the for loop
SetColorsIterate ==
    /\ call.op = "change_lights_colors" /\ call.pc = "loop"
    /\ call.i < Len(call.names)
    /\ IF color_one_raises(call.color_values) # ""
       THEN /\ call' = [call EXCEPT !.pc = "raised",
                                    !.raised = color_one_raises(call.color_values)]
            /\ UNCHANGED lights
       ELSE /\ lights' = color_one(lights, call.names, call.color_values, call.i)
            /\ call' = [call EXCEPT !.i = @ + 1]
    /\ UNCHANGED <<lockVars, task_id_key, track_key, tasks, api, last_push>>

\* hue.py:151: the list is exhausted, the call returns None
SetColorsReturn ==
    /\ call.op = "change_lights_colors" /\ call.pc = "loop"
    /\ call.i = Len(call.names)
    /\ call' = [call EXCEPT !.pc = "returned"]
    /\ UNCHANGED <<lockVars, loopVars>>

(***************************************************************************)
(* From a k-means cluster centre to an xy value (spotihue.py:271-351,      *)
(* 486-498), in fixed point within 32 bits: channels are integers 0..255,  *)
(* normalized and gamma-corrected values and X, Y, Z are in units of 1e-8  *)
(* (floored), x and y are in ten-thousandths, the 4 decimal places the     *)
(* code rounds to.  On the centres below the result is that of the float   *)
(* computation, but for <<11, 0, 10>> and <<11, 10, 11>>, where a          *)
(* coordinate lies within 0.006 of a tie and comes out one lower.          *)
(***************************************************************************)
\* The channel values of the centres the calls are made with
Channels == {0, 5, 10, 11, 128, 255}

Centres == {<<r, g, b>> : r \in Channels, g \in Channels, b \in Channels}

\* A guard that takes a centre with any channel 0 for black (np.any)
check_for_any_black_channel(cluster) ==
    IF \E k \in 1..3 : cluster[k] = 0 THEN <<255, 255, 255>> ELSE cluster

\* SpotiHue._check_for_black_cluster (spotihue.py:271-280):
\* np.where(np.all(cluster == 0), [255, 255, 255], cluster)
check_for_black_cluster(cluster) ==
    IF \A k \in 1..3 : cluster[k] = 0 THEN <<255, 255, 255>> ELSE cluster

\* SpotiHue._normalize_rgb_values (spotihue.py:282-291): cluster / 255.0
normalize_rgb_values(cluster) ==
    [k \in 1..3 |->
        ((cluster[k] * 1000000) \div 255) * 100
        + (((cluster[k] * 1000000) % 255) * 100) \div 255]

\* (v + 0.055) / (1.0 + 0.055) (spotihue.py:311)
gamma_base(v) ==
    LET w == v + 5500000
    IN (w \div 1055) * 1000 + ((w % 1055) * 1000) \div 1055

\* base ** 2.4 (spotihue.py:311) for the bases that the channels above
\* 0.04045 * 255 give
pow_2_4 ==
    (9302109 :> 334653) @@ (52792490 :> 21586048) @@ (100000000 :> 100000000)

\* SpotiHue._apply_gamma_correction (spotihue.py:293-313)
apply_gamma_correction(normalized_rgb_values) ==
    [k \in 1..3 |->
        LET v == normalized_rgb_values[k]
        IN IF v > 4045000
           THEN pow_2_4[gamma_base(v)]
           ELSE (v * 100) \div 1292]

\* gamma * coefficient, the coefficient in millionths, by parts that stay
\* within 32 bits
MulMicro(coefficient, gamma) ==
    LET ch == coefficient \div 1000
        cl == coefficient % 1000
        gh == gamma \div 1000
        gl == gamma % 1000
    IN ch * gh + (ch * gl + cl * gh + (cl * gl) \div 1000) \div 1000

\* SpotiHue._convert_rgb_to_xyz (spotihue.py:315-333)
convert_rgb_to_xyz(gamma_corrected_values) ==
    LET gamma_R == gamma_corrected_values[1]
        gamma_G == gamma_corrected_values[2]
        gamma_B == gamma_corrected_values[3]
    IN << MulMicro(649926, gamma_R) + MulMicro(103455, gamma_G) + MulMicro(197109, gamma_B),
          MulMicro(234327, gamma_R) + MulMicro(743075, gamma_G) + MulMicro(22598, gamma_B),
          MulMicro(0, gamma_R) + MulMicro(53077, gamma_G) + MulMicro(1035763, gamma_B) >>

\* The next decimal digit of r / den and the remainder after it, for
\* 0 <= r < den
DivStep(r, den) ==
    LET q5 == (r * 5) \div den
        r5 == (r * 5) % den
    IN [d |-> 2 * q5 + (2 * r5) \div den, r |-> (2 * r5) % den]

\* A rounding that always goes up to the next ten-thousandth
round4_ceiling(num, den) ==
    LET s1 == DivStep(num % den, den)
        s2 == DivStep(s1.r, den)
        s3 == DivStep(s2.r, den)
        s4 == DivStep(s3.r, den)
        down == (num \div den) * 10000 + s1.d * 1000 + s2.d * 100 + s3.d * 10 + s4.d
    IN IF s4.r > 0 THEN down + 1 ELSE down

\* round(num / den, 4) in ten-thousandths, for 0 <= num <= den and den > 0;
\* a tie goes to the even digit, as round() does
round4(num, den) ==
    LET s1 == DivStep(num % den, den)
        s2 == DivStep(s1.r, den)
        s3 == DivStep(s2.r, den)
        s4 == DivStep(s3.r, den)
        down == (num \div den) * 10000 + s1.d * 1000 + s2.d * 100 + s3.d * 10 + s4.d
    IN IF 2 * s4.r > den THEN down + 1
       ELSE IF 2 * s4.r < den THEN down
       ELSE IF down % 2 = 0 THEN down ELSE down + 1

\* SpotiHue._convert_xyz_to_xy (spotihue.py:335-351).  X, Y and Z are numpy
\* floats: with total = 0 the divisions give nan, they do not raise.
convert_xyz_to_xy(X, Y, Z) ==
    LET total == X + Y + Z
    IN IF total = 0
       THEN [nan |-> TRUE, x |-> 0, y |-> 0]
       ELSE [nan |-> FALSE, x |-> round4(X, total), y |-> round4(Y, total)]

\* X, Y, Z of a cluster taken as it comes, with no guard
cluster_XYZ_unguarded(cluster) ==
    convert_rgb_to_xyz(apply_gamma_correction(normalize_rgb_values(cluster)))

\* spotihue.py:488-493: the guard, the normalization, the gamma correction
\* and the conversion to X, Y, Z of one cluster
cluster_XYZ(cluster) ==
    LET guarded == check_for_black_cluster(cluster)
        normalized_rgb_values == normalize_rgb_values(guarded)
        gamma_corrected_values == apply_gamma_correction(normalized_rgb_values)
    IN convert_rgb_to_xyz(gamma_corrected_values)

\* The body of the for loop of process_kmeans_clusters_to_light_color_values
\* (spotihue.py:487-496) for one cluster
light_color_value(cluster) ==
    LET XYZ == cluster_XYZ(cluster)
    IN convert_xyz_to_xy(XYZ[1], XYZ[2], XYZ[3])

\* One iteration of spotihue.py:486-496 on one cluster centre
LightColorValueCall(cluster) ==
    /\ call = NoCall
    /\ call' = [op |-> "light_color_value", pc |-> "returned", cluster |-> cluster,
                guarded |-> check_for_black_cluster(cluster),
                total |-> cluster_XYZ(cluster)[1] + cluster_XYZ(cluster)[2]
                          + cluster_XYZ(cluster)[3],
                xy |-> light_color_value(cluster)]
    /\ UNCHANGED <<lockVars, loopVars>>

(***************************************************************************)
(* From a decoded artwork image to the colour values (spotihue.py:230-269, *)
(* 423-498, 544-550).  An image is its shape, H rows by W columns.         *)
(***************************************************************************)
\* The largest side of the images the calls are made with
MaxSide == 5

\* spotihue.py:231: percentage = 60
DEFAULT_PERCENTAGE == 60

\* spotihue.py:446: k = 3
DEFAULT_K == 3

\* spotihue.py:245-248: (width, height) of the resized image; int() drops
\* the fraction
resize_dimensions(H, W, percentage) ==
    << (W * percentage) \div 100, (H * percentage) \div 100 >>

\* SpotiHue.process_album_artwork_image_array and what follows it in
\* sync_lights_music (spotihue.py:544-550) on an H x W image: cv2.resize
\* (spotihue.py:249-251) raises cv2.error for a size with a 0, reshape(-1, 3)
\* (spotihue.py:269) gives one row a pixel, KMeans.fit (spotihue.py:465-466)
\* raises ValueError for fewer rows than clusters and gives k centres
\* otherwise, one xy value a centre (spotihue.py:486-498), and the one call
\* of spotihue.py:550 passes them on.
extract(H, W) ==
    LET dimensions == resize_dimensions(H, W, DEFAULT_PERCENTAGE)
        pixels == dimensions[1] * dimensions[2]
        raised == IF dimensions[1] = 0 \/ dimensions[2] = 0 THEN "cv2.error"
                  ELSE IF pixels < DEFAULT_K THEN "ValueError"
                  ELSE ""
    IN [dimensions |-> dimensions, pixels |-> pixels, raised |-> raised,
        light_color_values |-> IF raised = "" THEN DEFAULT_K ELSE 0,
        pushes |-> IF raised = "" THEN 1 ELSE 0]

\* One run of the extraction of spotihue.py:544-550 on an H x W image
ExtractCall(H, W) ==
    /\ call = NoCall
    /\ call' = [op |-> "extract",
                pc |-> IF extract(H, W).raised = "" THEN "returned" ELSE "raised",
                shape |-> <<H, W>>,
                out |-> extract(H, W)]
    /\ UNCHANGED <<lockVars, loopVars>>

\* One call of SpotiHue._get_current_track (spotihue.py:152-163)
GetCurrentTrackCall(resp) ==
    /\ call = NoCall
    /\ call' = [op |-> "_get_current_track",
                pc |-> IF get_current_track_raises(resp) = "" THEN "returned" ELSE "raised",
                resp |-> resp,
                result |-> get_current_track(resp),
                raised |-> get_current_track_raises(resp)]
    /\ UNCHANGED <<lockVars, loopVars>>

(***************************************************************************)
(* setup_hue (tasks.py:163-181), the body the singleton wrapper runs       *)
(***************************************************************************)
\* The largest retries argument; main.py:50 passes 3
MaxRetries == 3

\* What SpotiHue.hue_ready(raise_exception=True) (spotihue.py:132-150) does
\* on one attempt: connect() succeeds and it returns True, or connect()
\* raises and the exception, phue's own or any other, is re-raised.
ConnectOutcomes == {"connected", "PhueException", "OSError"}

\* An attempt whose last failure is logged and not raised
setup_hue_attempt_logging_only(c, outcome) ==
    LET tried == [c EXCEPT !.sleeps = @ + 1, !.attempts = @ + 1]
    IN IF outcome = "connected"
       THEN [tried EXCEPT !.pc = "returned", !.connected = TRUE]
       ELSE IF outcome = "PhueException"
       THEN IF c.attempt < c.retries - 1
            THEN [tried EXCEPT !.attempt = @ + 1, !.phue_failures = @ + 1]
            ELSE [tried EXCEPT !.pc = "returned", !.phue_failures = @ + 1]
       ELSE [tried EXCEPT !.pc = "raised", !.raised = outcome]

\* tasks.py:169-181, the body of the for loop for one attempt: the sleep,
\* the connection attempt, and what follows its outcome.  An exception
\* that is no PhueException passes the except clause and leaves the task.
setup_hue_attempt(c, outcome) ==
    LET tried == [c EXCEPT !.sleeps = @ + 1, !.attempts = @ + 1]
    IN IF outcome = "connected"
       THEN [tried EXCEPT !.pc = "returned", !.connected = TRUE]
       ELSE IF outcome = "PhueException"
       THEN IF c.attempt < c.retries - 1
            THEN [tried EXCEPT !.attempt = @ + 1, !.phue_failures = @ + 1]
            ELSE [tried EXCEPT !.pc = "raised", !.raised = outcome,
                               !.phue_failures = @ + 1]
       ELSE [tried EXCEPT !.pc = "raised", !.raised = outcome]

\* tasks.py:165-166: the task body starts
SetupHueCall(retries) ==
    /\ call = NoCall
    /\ call' = [op |-> "setup_hue", pc |-> "loop", retries |-> retries, attempt |-> 0,
                sleeps |-> 0, attempts |-> 0, phue_failures |-> 0,
                connected |-> FALSE, raised |-> ""]
    /\ UNCHANGED <<lockVars, loopVars>>

\* tasks.py:168-181: range(retries) has a next value
SetupHueAttempt(outcome) ==
    /\ call.op = "setup_hue" /\ call.pc = "loop"
    /\ call.attempt < call.retries
    /\ call' = setup_hue_attempt(call, outcome)
    /\ UNCHANGED <<lockVars, loopVars>>

\* tasks.py:168: range(retries) is exhausted, the body ends
SetupHueExhausted ==
    /\ call.op = "setup_hue" /\ call.pc = "loop"
    /\ call.attempt >= call.retries
    /\ call' = [call EXCEPT !.pc = "returned"]
    /\ UNCHANGED <<lockVars, loopVars>>

\* One call of SpotiHue.retrieve_current_track_information
\* (spotihue.py:367-393)
RetrieveCurrentTrackInformationCall(resp) ==
    /\ call = NoCall
    /\ call' = [op |-> "retrieve_current_track_information", pc |-> "returned",
                resp |-> resp,
                result |-> retrieve_current_track_information(resp)]
    /\ UNCHANGED <<lockVars, loopVars>>

\* The caller has taken what the call returned or raised; the next call
\* can start.
CallEnds ==
    /\ call.pc \in {"returned", "raised"}
    /\ call' = NoCall
    /\ UNCHANGED <<lockVars, loopVars>>

InitCalls ==
    /\ InitLock
    /\ task_id_key = None
    /\ track_key = EmptyDict
    /\ tasks = [n \in TaskNumbers |-> NoTask]
    /\ api = ApiIdle
    /\ lights = [n \in CallLightNames |-> PriorLight(n = "L2", TRUE)]
    /\ last_push = None

\* A call starts when no call is in progress.
NextCalls ==
    \/ /\ call = NoCall
       /\ \E names \in SeqsUpTo(CallLightNames, MaxLights),
             color_values \in SeqsUpTo(Palette, MaxColors) :
               SetColorsCall(names, color_values)
    \/ SetColorsIterate
    \/ SetColorsReturn
    \/ call = NoCall /\ \E resp \in Responses : GetCurrentTrackCall(resp)
    \/ call = NoCall /\ \E resp \in Responses : RetrieveCurrentTrackInformationCall(resp)
    \/ call = NoCall /\ \E retries \in 0..MaxRetries : SetupHueCall(retries)
    \/ \E outcome \in ConnectOutcomes : SetupHueAttempt(outcome)
    \/ SetupHueExhausted
    \/ call = NoCall /\ \E cluster \in Centres : LightColorValueCall(cluster)
    \/ call = NoCall /\ \E H \in 1..MaxSide, W \in 1..MaxSide : ExtractCall(H, W)
    \/ CallEnds

\* Calls of the bridge, track and colour functions, one after the other
SpecCalls == InitCalls /\ [][NextCalls]_vars

\* The lock does not touch the fixtures: its invocations start with every
\* fixture off.
InitIdle == InitLock /\ InitLoop /\ \A n \in LightNames : ~lights[n].on

\* The lock and its invocations
SpecLock == InitIdle /\ [][NextLock]_vars

\* The API process, the worker and the loops
Spec == Init /\ [][Next]_vars

InitRun == InitLock /\ InitStarted

\* One loop from its launch on, with no further request
SpecLoop == InitRun /\ [][NextRun]_vars

(***************************************************************************)
(* Claims about the lock, checked under SpecLock                           *)
(***************************************************************************)
\* Invocation i is inside the scope of acquire_for and was told acquired=True.
Holds(i) == inv[i].pc \in {"try", "yield", "finally"} /\ inv[i].acquired

\* C2: lock exclusivity. For every lock_id, at most one token is held at a
\* time: two invocations with different tokens are never both inside the
\* scope of acquire_for on the same lock_id with acquired = True.
C2_LockExclusive ==
    \A i, j \in Invocations :
        (/\ i # j
         /\ Holds(i) /\ Holds(j)
         /\ inv[i].name = inv[j].name)
        => inv[i].task_id = inv[j].task_id

\* C9: guaranteed release. When the scope of an acquire_for that acquired the
\* lock has exited, whether the body returned or raised, no record written
\* by that invocation remains under its lock_id.
C9_ReleasedOnExit ==
    \A i \in Invocations :
        (inv[i].pc = "exited" /\ inv[i].acquired)
        => (lock[inv[i].name] = NoRecord \/ lock[inv[i].name].writer # i)

\* C9 witness: an invocation that acquired the lock and whose body raised
\* has left the scope.
C9_Witness ==
    \E i \in Invocations :
        inv[i].pc = "exited" /\ inv[i].acquired /\ inv[i].outcome = "raised"

\* C10: acquire_for yields acquired = True exactly when no (unexpired) record
\* exists for lock_id or the record's holder equals the token; an invocation
\* that was told False changes nothing of the record, until and including
\* its scope exit.
C10_AcquireSemantics ==
    [][\A i \in Invocations :
        /\ (inv[i].pc = "get" /\ inv'[i].pc = "try")
           => (inv'[i].acquired <=>
                  (\/ ~LiveRecord(inv[i].name)
                   \/ lock[inv[i].name].value = PyBytes(inv[i].task_id)))
        /\ (/\ inv[i].pc \in {"try", "yield", "finally"}
            /\ ~inv[i].acquired
            /\ inv'[i] # inv[i])
           => lock' = lock]_vars

\* C10 witness: an invocation that was refused has left the scope while the
\* record of the other token is still there.
C10_Witness ==
    \E i \in Invocations :
        /\ inv[i].pc = "exited" /\ ~inv[i].acquired
        /\ LiveRecord(inv[i].name)
        /\ lock[inv[i].name].value # PyBytes(inv[i].task_id)

\* C11: a lock never blocks forever. An acquire_for that reads the lock when
\* its record has been deleted by a release, or when the maximum duration
\* has passed since the record was written, is told acquired = True,
\* whatever its token; and no record outlives 5 minutes (300 seconds).
C11_NeverBlocksForever ==
    [][/\ \A n \in TaskNames :
            lock[n] # NoRecord => lock[n].expiry <= now + 300
       /\ \A i \in Invocations :
            (/\ inv[i].pc = "get" /\ inv'[i].pc = "try"
             /\ (lock[inv[i].name] = NoRecord \/ lock[inv[i].name].expiry <= now))
            => inv'[i].acquired]_vars

\* C11 witness: an invocation read the lock while the unreleased record of
\* another token, whose writer is still in its task body, had run out, and
\* was told acquired = True.
C11_Witness ==
    \E i, j \in Invocations :
        /\ i # j
        /\ inv[i].pc = "try" /\ inv[i].acquired
        /\ lock[inv[i].name] # NoRecord
        /\ lock[inv[i].name].writer = j
        /\ lock[inv[i].name].expiry <= inv[i].got_at
        /\ lock[inv[i].name].value # PyBytes(inv[i].task_id)
        /\ inv[j].pc = "yield" /\ inv[j].name = inv[i].name

\* The task body of invocation i is executing.
InBody(i) == inv[i].pc = "yield" /\ inv[i].acquired

\* C12: the body of a singleton task runs only in an invocation that
\* acquired the lock, and two bodies of the same task name never execute at
\* the same time, whatever their tokens and however long a body runs.
C12_OneBodyPerTaskName ==
    \A i, j \in Invocations :
        (i # j /\ InBody(i) /\ InBody(j)) => inv[i].name # inv[j].name

(***************************************************************************)
(* Claims about the loop (checked under SpecLoop) and its handlers (Spec)   *)
(***************************************************************************)
\* The task left run_spotihue by itself (it was not revoked).
Ended(t) == tasks[t].state \in {"succeeded", "failed"}

\* The URL stored under the track information key, "" when there is none
StoredUrl == get(track_key, "track_album_artwork_url", "")

\* C1: at most one run_spotihue loop is active at any time.
C1_AtMostOneLoop ==
    Cardinality({t \in TaskNumbers : tasks[t].state = "running"}) <= 1

\* C3: idempotence of unchanged artwork. A tick whose polled artwork URL
\* equals the URL it read from the store has not pushed colours to the
\* fixtures.
C3_UnchangedArtworkNotPushed ==
    \A t \in TaskNumbers :
        (/\ tasks[t].tick # ""
         /\ ~IsNone(tasks[t].last)
         /\ tasks[t].last.v = tasks[t].track_info.track_album_artwork_url)
        => tasks[t].tick # "pushed"

\* C3 witness: a tick of a playing track whose artwork URL was the stored
\* one has been skipped.
C3_Witness ==
    \E t \in TaskNumbers :
        /\ tasks[t].state = "running"
        /\ tasks[t].tick = "skip"
        /\ tasks[t].track_info.track_album_artwork_url # ""
        /\ tasks[t].last = PyStr(tasks[t].track_info.track_album_artwork_url)

\* C4: retry exhaustion terminates cleanly. A loop all of whose polls found
\* nothing playing and that has ended, has ended normally, after spending
\* its whole retry budget and without invoking sync_lights_music.
C4_RetryExhaustionStopsCleanly ==
    \A t \in TaskNumbers :
        (Ended(t) /\ ~tasks[t].saw_track)
        => (/\ tasks[t].state = "succeeded"
            /\ tasks[t].retries_spent = CURRENT_TRACK_RETRIES
            /\ tasks[t].tick = "")

\* C5: the last-synced artwork URL is persisted only after its colours were
\* pushed. Stated for the states in which no tick is between its hset and
\* its push: a stored non-empty URL is the URL of the latest colour push.
C5_PersistedOnlyAfterPush ==
    (\A t \in TaskNumbers : tasks[t].pc # "compare")
    => (StoredUrl # "" => last_push = PyStr(StoredUrl))

\* C6: a poll that finds a track resets the retry counter, so a loop that
\* saw a track and later stopped on a poll without a track spent the full
\* retry budget on polls without a track before it stopped.
C6_FullBudgetAfterTrack ==
    \A t \in TaskNumbers :
        (Ended(t) /\ tasks[t].saw_track /\ tasks[t].heard = "nothing")
        => tasks[t].retries_spent = CURRENT_TRACK_RETRIES

\* The neutral baseline of a fixture
Neutral(l) ==
    /\ l.on
    /\ l.brightness = NEUTRAL_BRIGHTNESS
    /\ ~l.white_light => (l.hue = NEUTRAL_HUE /\ l.saturation = NEUTRAL_SATURATION)

\* C7: once a loop is past its start and before any derived colour is
\* applied, every fixture it was given is in the neutral baseline.
C7_NeutralBaselineOnStart ==
    \A t \in TaskNumbers :
        (tasks[t].state = "running" /\ tasks[t].pc # "neutral" /\ IsNone(last_push))
        => \A n \in Range(tasks[t].lights) : Neutral(lights[n])

\* C8: a tick whose artwork could not be fetched or decoded does not end
\* the loop.
C8_FetchFailureContinues ==
    \A t \in TaskNumbers :
        tasks[t].fetched \in {"http_error", "not_an_image"}
        => tasks[t].state = "running"

(***************************************************************************)
(* Claims about the start and stop handlers, checked under Spec            *)
(***************************************************************************)
\* A loop that runs and has not been told to terminate
Active(t) == tasks[t].state = "running" /\ ~tasks[t].revoke

\* C13: cancellation. A stop that finds a loop running ends with the run
\* identifier cleared and every running loop told to terminate; a stop
\* answers "not running" only when no loop is active, and then changes
\* nothing; no step of the stop handler changes the stored track
\* information.
C13_StopCancels ==
    [][/\ (/\ api.pc = "idle" /\ api' # api
           /\ api'.response = "spotihue is not running")
          => (/\ \A t \in TaskNumbers : ~Active(t)
              /\ UNCHANGED <<task_id_key, track_key, tasks, lights>>)
       /\ (api.pc = "stop_clear" /\ api'.pc = "idle")
          => (/\ task_id_key' = None
              /\ \A t \in TaskNumbers : ~Active(t)')
       /\ (api.pc \in {"stop_revoke", "stop_clear"} /\ api' # api)
          => track_key' = track_key]_vars

\* No handler is in progress and no loop is launched or running: nothing
\* happens until the next request.
Quiescent ==
    /\ api.pc = "idle"
    /\ \A t \in TaskNumbers : tasks[t].state \notin {"sent", "running"}

\* The loop of task t is over: it ended by itself or it was cancelled.
Over(t) == tasks[t].state \in {"succeeded", "failed", "revoked"}

\* C14: the run record of a loop that is over is removed. Once the system
\* is quiescent, whatever removes the record has run, so the stored run
\* identifier is that of no loop that is over.
C14_RunRecordRemoved ==
    Quiescent =>
        \A t \in TaskNumbers : Over(t) => task_id_key # PyBytes(TaskId(t))

\* C15: a start request that finds the loop running launches no loop,
\* leaves the stored run identifier as it is, and its answer differs from
\* the answer of a start that launched a loop ("spotihue started").
C15_AlreadyRunningSignalled ==
    [][/\ (api.pc = "idle" /\ api'.pc = "start_already")
          => UNCHANGED <<task_id_key, tasks>>
       /\ (api.pc = "start_already" /\ api' # api)
          => (/\ UNCHANGED <<task_id_key, tasks>>
              /\ api'.response # "spotihue started")]_vars

(***************************************************************************)
(* Claims about single calls, checked under SpecCalls                      *)
(***************************************************************************)
\* C16: cyclic colour assignment. The iteration for position i (0-based) of
\* the fixture list, white lights counted, gives a colour-capable fixture
\* the colour colors[i mod n] and changes nothing else.
C16_CyclicColours ==
    [][(/\ call.op = "change_lights_colors" /\ call.pc = "loop"
        /\ call'.pc = "loop" /\ call'.i = call.i + 1)
       => LET i == call.i
              n == Len(call.color_values)
              light == call.names[i + 1]
          IN /\ n >= 1
             /\ ~lights[light].white_light
                   => lights'[light].xy = call.color_values[(i % n) + 1]
             /\ \A other \in DOMAIN lights :
                   (other # light \/ lights[other].white_light)
                     => lights'[other] = lights[other]]_vars

\* C16 witness: a call with three fixtures and two different colours has
\* returned; the second fixture is a white light, the third is
\* colour-capable, is no earlier fixture of the list, and has the first
\* colour.
C16_Witness ==
    /\ call.op = "change_lights_colors" /\ call.pc = "returned"
    /\ Len(call.names) = 3 /\ Len(call.color_values) = 2
    /\ call.color_values[1] # call.color_values[2]
    /\ lights[call.names[2]].white_light
    /\ ~lights[call.names[3]].white_light
    /\ call.names[3] # call.names[1]
    /\ lights[call.names[3]].xy = call.color_values[1]

\* C17: set_colors never errors the whole call: no call of
\* change_lights_colors, whatever its fixture list and colour list, ends by
\* raising.
C17_SetColorsNeverRaises ==
    call.op = "change_lights_colors" => call.pc # "raised"

\* C18: _get_current_track fails soft. Every call returns; it returns None
\* when nothing is playing and when the upstream query raised, whatever the
\* error, and the playback otherwise.
C18_GetCurrentTrackFailsSoft ==
    call.op = "_get_current_track"
    => (/\ call.pc = "returned" /\ call.raised = ""
        /\ call.resp.kind \in {"none", "error"} => IsNone(call.result)
        /\ call.resp.kind = "playback" => call.result = call.resp)

\* C18 witness: the upstream query raised an error that is no
\* SpotifyException, and the call returned None.
C18_Witness ==
    /\ call.op = "_get_current_track" /\ call.pc = "returned"
    /\ call.resp.kind = "error" /\ call.resp.exc # "SpotifyException"
    /\ IsNone(call.result)

\* C19: black-cluster remap. The centre (0,0,0) gets the xy value of the
\* centre (255,255,255), and every other centre passes the guard unchanged.
C19_BlackClusterRemap ==
    call.op = "light_color_value"
    => (/\ call.cluster = <<0, 0, 0>>
           => call.xy = light_color_value(<<255, 255, 255>>)
        /\ call.cluster # <<0, 0, 0>> => call.guarded = call.cluster)

\* C19 witness: the centre (0,0,0) was processed and came out with a
\* number, the x of which is that of white in the Wide RGB D65 conversion.
C19_Witness ==
    /\ call.op = "light_color_value" /\ call.pc = "returned"
    /\ call.cluster = <<0, 0, 0>>
    /\ call.guarded = <<255, 255, 255>>
    /\ ~call.xy.nan /\ call.xy.x = 3127

\* C20: xy range. Every derived (x, y), rounded to 4 decimal places, is a
\* number with 0 <= x <= 1, 0 <= y <= 1 and x + y <= 1 (10000
\* ten-thousandths).
C20_XyRange ==
    call.op = "light_color_value"
    => (/\ ~call.xy.nan
        /\ 0 <= call.xy.x /\ call.xy.x <= 10000
        /\ 0 <= call.xy.y /\ call.xy.y <= 10000
        /\ call.xy.x + call.xy.y <= 10000)

\* C20 witness: a pure red centre, for which Z = 0 and x + y is exactly 1.
C20_Witness ==
    /\ call.op = "light_color_value" /\ call.pc = "returned"
    /\ call.cluster = <<255, 0, 0>>
    /\ call.xy.x + call.xy.y = 10000

\* C21: for every decodable image of at least 1x1 pixel and k = 3 the
\* extraction returns exactly k xy values and pushes them once, and the
\* resize gives no side of 0 pixels and no fewer pixels than k.
C21_ExtractionGivesKValues ==
    call.op = "extract"
    => (/\ call.out.raised = ""
        /\ call.out.light_color_values = DEFAULT_K
        /\ call.out.pushes = 1
        /\ call.out.dimensions[1] > 0 /\ call.out.dimensions[2] > 0
        /\ call.out.pixels >= DEFAULT_K)

\* C22: the XYZ-to-xy step never divides by zero. For every cluster centre,
\* after the black-cluster guard and the gamma correction, X + Y + Z is
\* strictly positive.
C22_TotalPositive ==
    call.op = "light_color_value" => call.total > 0

\* C22 witness: the centre (0,0,0), the only one whose channels give
\* X + Y + Z = 0, was processed and was divided by white's total.
C22_Witness ==
    /\ call.op = "light_color_value" /\ call.pc = "returned"
    /\ call.cluster = <<0, 0, 0>>
    /\ call.total > 0
    /\ call.total = cluster_XYZ(<<255, 255, 255>>)[1] + cluster_XYZ(<<255, 255, 255>>)[2]
                    + cluster_XYZ(<<255, 255, 255>>)[3]

(***************************************************************************)
(* Claims about the poll, checked under SpecLoop                           *)
(***************************************************************************)
\* The poll of loop t was just answered with a paused playback.
PolledPaused(t) ==
    /\ tasks[t].state = "running" /\ tasks[t].pc = "poll"
    /\ tasks'[t] # tasks[t]
    /\ tasks'[t].heard = "paused"

C24_KeysHoldTheirFields ==
    (call.op = "retrieve_current_track_information" /\ call.resp.kind = "playback")
    => LET item == call.resp.item
       IN /\ call.result.track_name = item.name
          /\ call.result.track_artist = item.album.artists[1].name
          /\ call.result.track_album = item.album.name
          /\ call.result.track_album_artwork_url =
                (IF Len(item.album.images) > 1 THEN item.album.images[2].url ELSE "")

\* What C25 says of a setup_hue call c: at most retries attempts, one sleep
\* before each, no attempt after a success, the bridge error raised exactly
\* when all retries attempts failed with it, and no normal return without
\* a connection.
SetupHueContract(c) ==
    /\ c.attempts <= c.retries
    /\ c.sleeps = c.attempts
    /\ c.connected => (c.pc = "returned" /\ c.attempts = c.phue_failures + 1)
    /\ c.pc \in {"returned", "raised"}
        => ((c.pc = "raised" /\ c.raised = "PhueException") <=> c.phue_failures = c.retries)
    /\ c.pc = "returned" => c.connected

C26_ReleaseKeepsOthersLock ==
    [][\A i \in Invocations :
        (/\ inv[i].pc = "finally" /\ inv'[i].pc = "exited"
         /\ LiveRecord(inv[i].name)
         /\ lock[inv[i].name].writer # i
         /\ lock[inv[i].name].value # PyBytes(inv[i].task_id))
        => lock'[inv[i].name] = lock[inv[i].name]]_vars

(***************************************************************************)
(* Further claims about the loops and the handlers, checked under Spec     *)
(***************************************************************************)
\* Loop t completes a tick for a track with a usable artwork URL, the first
\* such tick of its run to get as far as the comparison without a push
\* before it.
FirstValidTick(t) ==
    /\ tasks[t].state = "running" /\ tasks[t].pc = "compare"
    /\ tasks[t].track_info.track_album_artwork_url # ""
    /\ ~tasks[t].synced
    /\ tasks'[t].state = "running" /\ tasks'[t].pc = "poll"

\* C27: in every run of the loop, the first tick that finds a track with a
\* valid artwork URL (and whose artwork can be fetched and decoded) pushes
\* the colours derived from that artwork to the fixtures, also when the
\* store holds that URL from an earlier run.
C27_FirstTickPushes ==
    [][\A t \in TaskNumbers :
        FirstValidTick(t)
        => /\ tasks'[t].tick = "pushed"
           /\ last_push' = PyStr(tasks[t].track_info.track_album_artwork_url)]_vars

\* A loop that was launched and neither ended nor was told to terminate
Launched(t) == tasks[t].state \in {"sent", "running"} /\ ~tasks[t].revoke

\* The stop handler returns its answer in this step.
StopReturns ==
    /\ api' # api
    /\ api'.pc = "idle"
    /\ api'.response \in {"spotihue stopped", "spotihue is not running"}

\* C28: when stop has returned, no run_spotihue task remains that was
\* launched and has not been terminated or told to terminate; also for a
\* stop right after start returned and after overlapping start requests.
C28_StopTerminatesEveryLoop ==
    [][StopReturns => \A t \in TaskNumbers : ~Launched(t)']_vars

(***************************************************************************)
(* Further claims about the loop, checked under SpecLoop                   *)
(***************************************************************************)
\* C29: a playing track without a usable artwork (fewer than two images, so the
\* artwork URL is the empty sentinel) never terminates the loop; its tick
\* pushes no colours and the loop goes on to the next poll.  Stated for a
\* loop that was given fixtures.
C29_NoArtworkContinues ==
    [][\A t \in TaskNumbers :
        (/\ tasks[t].state = "running" /\ tasks[t].pc = "compare"
         /\ tasks[t].heard = "track"
         /\ tasks[t].lights # <<>>
         /\ tasks[t].track_info.track_album_artwork_url = default_track_album_artwork_url
         /\ tasks'[t] # tasks[t])
        => (/\ tasks'[t].state = "running" /\ tasks'[t].pc = "poll"
            /\ tasks'[t].tick # "pushed"
            /\ lights' = lights)]_vars

(***************************************************************************)
(* A further claim about the start handler, checked under Spec             *)
(***************************************************************************)
\* C30: the loop is only ever launched with a non-empty fixture list. For
\* every start request that is accepted, the list passed to run_spotihue
\* has at least one fixture, also when none of the requested names is a
\* reachable light.
C30_LaunchedWithFixtures ==
    [][(api.pc = "start_launch" /\ api'.pc = "start_set_id")
       => tasks'[api'.task].lights # <<>>]_vars

====
